---- MODULE Spec2Model ----
(***************************************************************************)
(* Synai Prompt & Context Factory: the operations log (db_manager.py), the *)
(* user directories (user_manager.py), the prompt, context and designer    *)
(* steps and the four pipelines of pipelines.py, as a state machine.        *)
(*                                                                         *)
(* Callers invoke operations; an operation runs one call of the source per *)
(* step, so that callers interleave at call boundaries (the source         *)
(* holds no lock).  The wall clock, the store's acceptance of an append    *)
(* and the files a user drops into a context directory are inputs.         *)
(***************************************************************************)
EXTENDS Integers, Sequences, FiniteSets, TLC

VARIABLES
    clock,      \* the wall clock, in microseconds
    log,        \* operations_log: the rows in insertion order (row i has id i)
    dirs,       \* user_ids whose directory tree data/users/<user_id>/... exists
    context,    \* context[u]: the files of u's context directory, name -> content
    files,      \* the artifacts written to prompts/ and seeds/: path -> content
    proc,       \* per caller: the running invocation, its locals, its outcome
    calls,      \* invocations started so far
    created,    \* the user_ids create_user has returned, in call order
    answer,     \* what get_operations_for_user returned, if it was the last step
    schema      \* the tables and indexes that exist in the database file

vars == <<clock, log, dirs, context, files, proc, calls, created, answer, schema>>

----------------------------------------------------------------------------
(* Bounds of the model *)

StartClock == 500000     \* the clock when the first operation is invoked
ClockStep == 500000      \* by how much the clock is seen to advance
MaxAdvances == 1         \* how often it is seen to advance
MaxCalls == 2            \* invocations per behaviour

Callers == {"c1"}
UserIdentifiers == {"ann"}

----------------------------------------------------------------------------
(* Python values *)

None == [some |-> FALSE]
Some(v) == [some |-> TRUE, val |-> v]

\* A str, int or bool value.  A str that names a user or a file (a user_id,
\* a path) is kept as the name it is, in ref.
NoRef == [none |-> TRUE]
PyStr(s) == [t |-> "str", s |-> s, n |-> 0, ref |-> NoRef]
PyInt(n) == [t |-> "int", s |-> "", n |-> n, ref |-> NoRef]
PyBool(b) == [t |-> "bool", s |-> "", n |-> IF b THEN 1 ELSE 0, ref |-> NoRef]
PyUserId(u) == [t |-> "str", s |-> "user_id", n |-> 0, ref |-> u]
PyPath(p) == [t |-> "str", s |-> "path", n |-> 0, ref |-> p]

\* An exception value: its class and str(e)
Exc(type, msg) == [type |-> type, msg |-> msg]
Ok(v) == [ok |-> TRUE, val |-> v]
Raise(e) == [ok |-> FALSE, exc |-> e]

\* Strings whose characters matter (file names) are sequences of characters;
\* Alphabet lists the characters in code point order.
Alphabet == <<".", "a", "b", "d", "f", "m", "p", "t", "x">>
Code(ch) == CHOOSE i \in 1..Len(Alphabet) : Alphabet[i] = ch

RECURSIVE Text(_)
Text(cs) == IF cs = <<>> THEN "" ELSE Head(cs) \o Text(Tail(cs))

RECURSIVE Repeat(_, _)
Repeat(s, n) == IF n = 0 THEN "" ELSE s \o Repeat(s, n - 1)

\* Python's < on str: by code point, a proper prefix first
RECURSIVE StrLess(_, _)
StrLess(a, b) ==
    IF b = <<>> THEN FALSE
    ELSE IF a = <<>> THEN TRUE
    ELSE IF Head(a) # Head(b) THEN Code(Head(a)) < Code(Head(b))
    ELSE StrLess(Tail(a), Tail(b))

EndsWith(s, suffix) ==
    /\ Len(suffix) <= Len(s)
    /\ SubSeq(s, Len(s) - Len(suffix) + 1, Len(s)) = suffix

\* A finite set of integers as an increasing sequence
RECURSIVE SortedIds(_)
SortedIds(S) ==
    IF S = {} THEN <<>>
    ELSE LET m == CHOOSE x \in S : \A y \in S : x <= y
         IN <<m>> \o SortedIds(S \ {m})

RECURSIVE InsertSorted(_, _)
InsertSorted(x, l) ==
    IF l = <<>> THEN <<x>>
    ELSE IF StrLess(x, Head(l)) THEN <<x>> \o l
    ELSE <<Head(l)>> \o InsertSorted(x, Tail(l))

\* list.sort() of a list of strings
RECURSIVE ListSortRec(_)
ListSortRec(l) ==
    IF l = <<>> THEN <<>> ELSE InsertSorted(Head(l), ListSortRec(Tail(l)))

ListSort(l) == ListSortRec(l)

\* A dict is a function from keys to values; {} is the function of empty domain.
EmptyDict == [k \in {} |-> None]
Dict1(k, v) == [x \in {k} |-> v]
Dict2(k1, v1, k2, v2) == [x \in {k1, k2} |-> IF x = k1 THEN v1 ELSE v2]

\* Truth value of a dict or None in `if x`
Truthy(x) == x.some /\ DOMAIN x.val # {}

----------------------------------------------------------------------------
(* utils.py *)

SHA256_HEX_LEN == 64
USER_ID_LEN == 16
SHORT_HASH_LEN == 8

Min(a, b) == IF a < b THEN a ELSE b

\* generate_hash: hexdigest()[:length] of SHA-256.  The digest is kept
\* symbolic (it is determined by the hashed data, and only by it); what is
\* computed is the number of hex characters the slice keeps.
GenerateHash(data, length) ==
    [data |-> data, len |-> Min(length, SHA256_HEX_LEN)]

----------------------------------------------------------------------------
(* db_manager.py *)

MicrosPerSecond == 1000000

\* json.dumps of a dict: a JSON object.  Keys are always strings in JSON: an
\* int key is written as its decimal text.  Values keep their JSON type.
JsonKey(k) == IF k.t = "int" THEN ToString(k.n) ELSE k.s

JsonDumps(d) ==
    [ks \in {JsonKey(k) : k \in DOMAIN d} |->
        LET k == CHOOSE x \in DOMAIN d : JsonKey(x) = ks IN d[k]]

\* json.loads of a JSON object: a dict whose keys are all str.
JsonLoads(j) == [k \in {PyStr(ks) : ks \in DOMAIN j} |-> j[k.s]]

\* log_operation lines 88-89: `json.dumps(x) if x else None`
ToJsonColumn(x) == IF Truthy(x) THEN Some(JsonDumps(x.val)) ELSE None

\* get_operations_for_user lines 138-150: `json.loads(col) if col else None`
\* (a stored JSON text is never the empty string)
FromJsonColumn(col) == IF col.some THEN Some(JsonLoads(col.val)) ELSE None

\* log_operation line 92: the seconds come from time.localtime(), read at
\* t1, the microseconds from a second clock read, time.time(), at t2 >= t1.
\* The text is fixed-width, so comparing two timestamps as strings is
\* comparing the pairs lexicographically.
Timestamp(t1, t2) == <<t1 \div MicrosPerSecond, t2 % MicrosPerSecond>>

TsLess(a, b) == a[1] < b[1] \/ (a[1] = b[1] /\ a[2] < b[2])

\* setup_database lines 36-58: the table and the two indexes
SchemaObjects == {"operations_log", "idx_user_id", "idx_timestamp"}

\* (DROP TABLE IF EXISTS, then CREATE: the table is made anew on every call)
SetupDatabase_Recreate(objects, rows) ==
    [objects |-> SchemaObjects, rows |-> <<>>, res |-> Ok(None)]

\* setup_database: CREATE TABLE IF NOT EXISTS and CREATE INDEX IF NOT EXISTS
\* make what is missing and leave what exists, rows included, as it is
SetupDatabase(objects, rows) ==
    [objects |-> objects \cup SchemaObjects,
     rows |-> IF "operations_log" \in objects THEN rows ELSE <<>>,
     res |-> Ok(None)]

\* log_operation lines 95-101: the INSERT; AUTOINCREMENT numbers the rows
NewRow(rows, t1, t2, user_id, operation_type, pipeline_name, input_params, output_ref, status, notes) ==
    [id                |-> Len(rows) + 1,
     timestamp         |-> Timestamp(t1, t2),
     user_id           |-> user_id,
     pipeline_name     |-> pipeline_name,
     operation_type    |-> operation_type,
     input_params_json |-> ToJsonColumn(input_params),
     output_ref_json   |-> ToJsonColumn(output_ref),
     status            |-> status,
     notes             |-> notes]

\* The arguments of one log_operation call, with the defaults of its signature
LogArgs(user_id, operation_type, pipeline_name, input_params, output_ref, status, notes) ==
    [user_id |-> user_id, operation_type |-> operation_type,
     pipeline_name |-> pipeline_name, input_params |-> input_params,
     output_ref |-> output_ref, status |-> status, notes |-> notes]

\* (the append also settles the user's PENDING_LLM rows with its own status)
LogOperation_ResolvePending(rows, t1, t2, a) ==
    Append([k \in 1..Len(rows) |->
               IF rows[k].user_id = a.user_id /\ rows[k].status = "PENDING_LLM"
               THEN [rows[k] EXCEPT !.status = a.status]
               ELSE rows[k]],
           NewRow(rows, t1, t2, a.user_id, a.operation_type,
                  a.pipeline_name, a.input_params, a.output_ref,
                  a.status, a.notes))

\* (the timestamp is the key of the table: a row whose timestamp is that of
\* the last row replaces it)
LogOperation_ReplaceOnEqualTimestamp(rows, t1, t2, a) ==
    LET row == NewRow(rows, t1, t2, a.user_id, a.operation_type,
                      a.pipeline_name, a.input_params, a.output_ref,
                      a.status, a.notes)
    IN IF Len(rows) > 0 /\ rows[Len(rows)].timestamp = row.timestamp
       THEN [rows EXCEPT ![Len(rows)] = [row EXCEPT !.id = Len(rows)]]
       ELSE Append(rows, row)

LogOperation(rows, t1, t2, a) ==
    Append(rows, NewRow(rows, t1, t2, a.user_id, a.operation_type,
                        a.pipeline_name, a.input_params, a.output_ref,
                        a.status, a.notes))

\* get_operations_for_user lines 124-130: WHERE user_id = ? ORDER BY
\* timestamp DESC.  SQL leaves the order of rows with equal sort keys to the
\* engine.  SQLite has two plans for this query: it finds the user's rows
\* through idx_user_id and sorts them, which keeps rows of equal timestamp in
\* rowid order, or it walks idx_timestamp backwards, which yields them in
\* reverse rowid order.
QueryPlans == {"sort", "index"}

\* (the query with its WHERE clause left out)
RowsOf_NoWhere(rows, user_id) == {i \in 1..Len(rows) : TRUE}

RowsOf(rows, user_id) == {i \in 1..Len(rows) : rows[i].user_id = user_id}

Newest(rows, S) ==
    {i \in S : \A j \in S : ~TsLess(rows[i].timestamp, rows[j].timestamp)}

RECURSIVE OrderByTimestampDesc(_, _, _)
OrderByTimestampDesc(rows, S, plan) ==
    IF S = {} THEN <<>>
    ELSE LET ties == Newest(rows, S)
             i == IF plan = "sort"
                  THEN CHOOSE x \in ties : \A y \in ties : x <= y
                  ELSE CHOOSE x \in ties : \A y \in ties : x >= y
         IN <<i>> \o OrderByTimestampDesc(rows, S \ {i}, plan)

\* get_operations_for_user lines 133-152: one dict per row
RowToDict(r) ==
    [id             |-> r.id,
     timestamp      |-> r.timestamp,
     user_id        |-> r.user_id,
     pipeline_name  |-> r.pipeline_name,
     operation_type |-> r.operation_type,
     input_params   |-> FromJsonColumn(r.input_params_json),
     output_ref     |-> FromJsonColumn(r.output_ref_json),
     status         |-> r.status,
     notes          |-> r.notes]

GetOperationsForUser(rows, user_id) ==
    {[k \in 1..Len(order) |-> RowToDict(rows[order[k]])]
        : order \in {OrderByTimestampDesc(rows, RowsOf(rows, user_id), plan)
                        : plan \in QueryPlans}}

----------------------------------------------------------------------------
(* user_manager.py *)

\* create_user lines 28-29: the id hashes the identifier and str(time.time())
NewUserId(user_identifier, t) ==
    GenerateHash(<<user_identifier, t>>, USER_ID_LEN)

\* create_user lines 32-38: makedirs(exist_ok=True) of the tree; an existing
\* tree and its files are left as they are
MakeUserDirs(ctx, user_id) ==
    IF user_id \in DOMAIN ctx THEN ctx
    ELSE [u \in DOMAIN ctx \cup {user_id} |->
            IF u = user_id THEN <<>> ELSE ctx[u]]

\* get_user_paths: ValueError unless the user's base directory exists
GetUserPaths(ds, user_id) ==
    IF user_id \in ds THEN Ok(user_id)
    ELSE Raise(Exc("ValueError", "User directory not found for user_id"))

UserPath(user_id, subfolder, name) ==
    [user |-> user_id, sub |-> subfolder, name |-> name]

\* utils.write_file: open(path, 'w') creates the file or replaces its content
\* (the content is not written)
WriteFile_Nothing(fs, path, content) == fs

WriteFile(fs, path, content) ==
    [p \in DOMAIN fs \cup {path} |-> IF p = path THEN content ELSE fs[p]]

----------------------------------------------------------------------------
(* context_processor.py *)

TXT == <<".", "t", "x", "t">>
MD == <<".", "m", "d">>

\* Content of a file: text as a sequence of pieces, each a run of characters
\* without line ends or one of the line ends "\n", "\r\n", "\r"; or bytes
\* that are not valid UTF-8
FileText(s) == [utf8 |-> TRUE, text |-> s]
Undecodable == [utf8 |-> FALSE, text |-> <<>>]

\* open(path, 'r') reads with universal newlines: "\r\n" and "\r" are
\* handed to the program as "\n"
RECURSIVE UniversalRec(_)
UniversalRec(pieces) ==
    IF pieces = <<>> THEN <<>>
    ELSE IF Head(pieces) = "\r\n" THEN <<"\n">> \o UniversalRec(Tail(pieces))
    ELSE IF Head(pieces) = "\r"
         THEN IF Tail(pieces) # <<>> /\ Head(Tail(pieces)) = "\n"
              THEN <<"\n">> \o UniversalRec(Tail(Tail(pieces)))
              ELSE <<"\n">> \o UniversalRec(Tail(pieces))
    ELSE <<Head(pieces)>> \o UniversalRec(Tail(pieces))

Universal(pieces) == UniversalRec(pieces)

\* utils.read_file of a file that decodes
ReadFile(content) == Text(Universal(content.text))

\* os.listdir: the names of a directory, in an order the file system chooses
ListDir(entries) ==
    {l \in [1..Cardinality(DOMAIN entries) -> DOMAIN entries] :
        \A i, j \in DOMAIN l : i # j => l[i] # l[j]}

\* line 38-41: the names of the listing that end with .txt or .md, in the
\* order of the listing
\* (every name of the listing is taken)
IsContextFile_Any(f) == TRUE

IsContextFile(f) == EndsWith(f, TXT) \/ EndsWith(f, MD)
ContextFilesOf(listing) == SelectSeq(listing, IsContextFile)

\* lines 54-59: header, separator of the header's length, content
ContextBlock(f, content) ==
    LET header == "### Context from " \o Text(f) \o " ###"
        separator == Repeat("-", Len(header))
    IN header \o "\n" \o separator \o "\n" \o content

RECURSIVE JoinBlocks(_)
JoinBlocks(blocks) ==
    IF blocks = <<>> THEN ""
    ELSE IF Len(blocks) = 1 THEN blocks[1]
    ELSE blocks[1] \o "\n\n" \o JoinBlocks(Tail(blocks))

\* get_user_context_string, os.listdir answering with listing
GetUserContextString(ds, ctx, user_id, listing) ==
    IF ~GetUserPaths(ds, user_id).ok THEN GetUserPaths(ds, user_id)
    ELSE
      LET entries == ctx[user_id]
          names == ListSort(ContextFilesOf(listing))
      IN IF names = <<>> THEN Ok("")
         ELSE IF \E k \in 1..Len(names) : ~entries[names[k]].utf8
              \* utils.read_file opens with encoding='utf-8'
              THEN Raise(Exc("UnicodeDecodeError",
                             "'utf-8' codec can't decode byte"))
         ELSE Ok(JoinBlocks([k \in 1..Len(names) |->
                    ContextBlock(names[k], ReadFile(entries[names[k]]))]))

----------------------------------------------------------------------------
(* prompt_manager.py *)

\* generate_user_assessment_prompt lines 51-53 and process_designer_llm_output
\* lines 108-110: <kind>_<hash8(user_id + str(t))>_<int(t)>.xml
ArtifactName(kind, user_id, t) ==
    [kind |-> kind,
     hash |-> GenerateHash(<<user_id, t>>, SHORT_HASH_LEN),
     secs |-> t \div MicrosPerSecond]

\* lines 57-60: the template with a user_id comment after the XML declaration
AssessmentContent(user_id) == [kind |-> "assessment", user_id |-> user_id]

\* generate_user_assessment_prompt, the clock read at t: the new file
\* system and the path, or the error of get_user_paths
GenerateUserAssessmentPrompt(ds, fs, user_id, t) ==
    IF ~GetUserPaths(ds, user_id).ok
    THEN [fs |-> fs, res |-> GetUserPaths(ds, user_id)]
    ELSE LET path == UserPath(user_id, "prompts",
                              ArtifactName("assessment_prompt", user_id, t))
         IN [fs  |-> WriteFile(fs, path, AssessmentContent(user_id)),
             res |-> Ok(path)]

USER_SUBDIRS == {"context", "prompts", "seeds", "feedback", "interaction_dumps"}

\* save_user_prompt: user_paths has the key 'base' and the five subdirectories
SaveUserPrompt(ds, fs, user_id, prompt_filename, prompt_content, subfolder) ==
    IF ~GetUserPaths(ds, user_id).ok
    THEN [fs |-> fs, res |-> GetUserPaths(ds, user_id)]
    ELSE IF subfolder \notin USER_SUBDIRS \cup {"base"}
    THEN [fs |-> fs, res |-> Raise(Exc("ValueError", "Invalid subfolder"))]
    ELSE LET path == UserPath(user_id, subfolder, prompt_filename)
         IN [fs |-> WriteFile(fs, path, prompt_content), res |-> Ok(path)]

----------------------------------------------------------------------------
(* llm_orchestrator.py *)

\* The designer template, cut at the occurrences of the placeholder {CONTEXT}
DesignerTemplate == <<"<synai_designer><context>", "</context></synai_designer>">>

RECURSIVE JoinWith(_, _)
JoinWith(parts, s) ==
    IF Len(parts) = 1 THEN parts[1]
    ELSE parts[1] \o s \o JoinWith(Tail(parts), s)

PLACEHOLDER == "{CONTEXT}"

\* str.replace(old, new) for a non-empty old: the text is scanned from the
\* left, every occurrence found is replaced, and the scan goes on after the
\* occurrence; the text put in is not scanned
RECURSIVE StrReplace(_, _, _)
StrReplace(s, old, new) ==
    IF Len(s) < Len(old) THEN s
    ELSE IF SubSeq(s, 1, Len(old)) = old
    THEN new \o StrReplace(SubSeq(s, Len(old) + 1, Len(s)), old, new)
    ELSE SubSeq(s, 1, 1) \o StrReplace(SubSeq(s, 2, Len(s)), old, new)

\* load_base_prompt('synai_designer.xml'): the text of the template file
LoadDesignerTemplate == JoinWith(DesignerTemplate, PLACEHOLDER)

\* (only the first occurrence is replaced, as by replace(old, new, 1))
Substitute_FirstOnly(template, context_string) ==
    LET first == CHOOSE i \in 1..(Len(template) + 1) :
                    /\ i <= Len(template) - Len(PLACEHOLDER) + 1 =>
                          SubSeq(template, i, i + Len(PLACEHOLDER) - 1) = PLACEHOLDER
                    /\ \A j \in 1..(i - 1) :
                          SubSeq(template, j, j + Len(PLACEHOLDER) - 1) # PLACEHOLDER
    IN IF first > Len(template) - Len(PLACEHOLDER) + 1 THEN template
       ELSE SubSeq(template, 1, first - 1) \o context_string
            \o SubSeq(template, first + Len(PLACEHOLDER), Len(template))

\* prepare_designer_llm_input line 36
Substitute(template, context_string) ==
    StrReplace(template, PLACEHOLDER, context_string)

\* prepare_designer_llm_input: template.replace('{CONTEXT}', context_string)
PrepareDesignerLlmInput(context_string) ==
    Substitute(LoadDesignerTemplate, context_string)

\* An XML element: a tag, a text and child elements.  A response is a text
\* (of which the length is kept) that ET.fromstring parses to an element, or
\* fails to parse.
Element(tag, text, children) ==
    [tag |-> tag, text |-> text, children |-> children]

NoMatch == 0

\* Element.find(tag): the first direct child with that tag (its index here)
Find(e, tag) ==
    IF \E i \in 1..Len(e.children) : e.children[i].tag = tag
    THEN CHOOSE i \in 1..Len(e.children) :
            /\ e.children[i].tag = tag
            /\ \A j \in 1..(i - 1) : e.children[j].tag # tag
    ELSE NoMatch

\* (the root tag is not looked at)
ValidateDesignerOutputXml_AnyRoot(response) == response.wellformed

\* validate_designer_output_xml
ValidateDesignerOutputXml(response) ==
    IF ~response.wellformed THEN FALSE      \* ET.ParseError
    ELSE response.root.tag = "synai"

\* lines 88-102: find or create <metadata>, append the three elements
WithMetadata(root, user_id, generated_at) ==
    LET added == <<Element("generated_at", generated_at, <<>>),
                   Element("generated_by", PyStr("synai_designer"), <<>>),
                   Element("user_id", PyUserId(user_id), <<>>)>>
        at == Find(root, "metadata")
    IN IF at = NoMatch
       THEN [root EXCEPT !.children =
                Append(@, Element("metadata", PyStr(""), added))]
       ELSE [root EXCEPT !.children[at].children = @ \o added]

\* (the seed is saved with save_user_prompt's default subfolder)
ProcessDesignerLlmOutput_DefaultSubfolder(ds, fs, response, user_id, t1, t2) ==
    IF ~ValidateDesignerOutputXml(response)
    THEN [fs |-> fs,
          res |-> Raise(Exc("ValueError",
                            "Invalid XML response from Designer LLM"))]
    ELSE SaveUserPrompt(ds, fs, user_id,
                        ArtifactName("seed_prompt", user_id, t2),
                        WithMetadata(response.root, user_id,
                                     PyInt(t1 \div MicrosPerSecond)),
                        "prompts")

\* process_designer_llm_output, time.strftime read at t1 and time.time() at t2
ProcessDesignerLlmOutput(ds, fs, response, user_id, t1, t2) ==
    IF ~ValidateDesignerOutputXml(response)
    THEN [fs |-> fs,
          res |-> Raise(Exc("ValueError",
                            "Invalid XML response from Designer LLM"))]
    ELSE SaveUserPrompt(ds, fs, user_id,
                        ArtifactName("seed_prompt", user_id, t2),
                        WithMetadata(response.root, user_id,
                                     PyInt(t1 \div MicrosPerSecond)),
                        "seeds")

----------------------------------------------------------------------------
(* Inputs *)

\* A user_id under which nothing was ever created or logged
Stranger == GenerateHash(<<"nobody", 0>>, USER_ID_LEN)

A_TXT == <<"a", ".", "t", "x", "t">>
B_MD == <<"b", ".", "m", "d">>

\* dicts passed as input_params or output_ref to a direct log_operation call
Payloads ==
    {None, Some(EmptyDict), Some(Dict2(PyStr("k"), PyInt(1), PyStr("m"), PyStr("x")))}

PayloadPairs == {<<p, p>> : p \in Payloads}

\* designer responses
Malformed == [wellformed |-> FALSE, len |-> 12]
WrongRoot ==
    [wellformed |-> TRUE, len |-> 9,
     root |-> Element("prompt", PyStr(""), <<>>)]
PlainSeed ==
    [wellformed |-> TRUE, len |-> 8,
     root |-> Element("synai", PyStr(""), <<>>)]
SeedWithMetadata ==
    [wellformed |-> TRUE, len |-> 51,
     root |-> Element("synai", PyStr(""),
                 <<Element("metadata", PyStr(""),
                      <<Element("user_id", PyStr("other"), <<>>)>>)>>)]

Responses == {Malformed, WrongRoot, PlainSeed, SeedWithMetadata}

\* the responses handed to the full pipeline
FullOnboardingResponses == {PlainSeed, Malformed}

\* context_files arguments of the full pipeline: filename -> content
ContextFileArgs ==
    {<<>>, (A_TXT :> <<"alpha">>) @@ (B_MD :> <<"beta", "\r\n", "gamma">>)}

\* files a user drops into a context directory by hand
DroppedFiles == {<<A_TXT, Undecodable>>}

----------------------------------------------------------------------------
(* pipelines.py: the position of a caller in the operation it invoked *)

NC == "onboard_new_user_no_context"
WC == "onboard_user_with_context_to_seed"
PS == "process_seed_from_designer_output"
FO == "full_user_onboarding_with_context"
LOG == "log_operation"
SETUP == "setup_database"

\* pc, op, args, loc: where the caller is, in which operation, called with
\* what, its local variables; result: how its last operation ended.
\* appended, written, refused record what the invocation did: the ids of
\* the rows it appended, the artifact paths it wrote, whether the store
\* refused one of its appends.
Idle ==
    [pc |-> "idle", op |-> "", args |-> <<>>, loc |-> <<>>,
     appended |-> <<>>, written |-> {}, refused |-> FALSE, result |-> None]

\* A caller that invokes op with args
Invoke(op, args, pc) ==
    [pc |-> pc, op |-> op, args |-> args, loc |-> <<>>,
     appended |-> <<>>, written |-> {}, refused |-> FALSE, result |-> None]

Set(loc, name, v) == (name :> v) @@ loc

\* The paths whose file is new or has new content in fs2
Changed(fs1, fs2) ==
    {p \in DOMAIN fs2 : p \notin DOMAIN fs1 \/ fs1[p] # fs2[p]}

Returned(v) == Some([kind |-> "returned", value |-> v])
Raised(e) == Some([kind |-> "raised", exc |-> e])

OperationalError == Exc("sqlite3.OperationalError", "unable to write")

\* ensure_dir_exists: os.makedirs fails where the data directory cannot be
\* written; load_base_prompt: read_file fails where the template is not
\* in base_prompts
CannotMakeDirs == Exc("PermissionError", "Permission denied")
TemplateNotFound == Exc("FileNotFoundError", "No such file or directory")

\* (the with-context pipeline logs the prepared input as the full one does)
PreparedStatus_Success(op) == "SUCCESS"

\* The status with which DESIGNER_INPUT_PREPARED is logged: PENDING_LLM in
\* the with-context pipeline, the default of log_operation in the full one
PreparedStatus(op) == IF op = WC THEN "PENDING_LLM" ELSE "SUCCESS"

\* The log_operation call a caller is about to make
StepLogArgs(p) ==
    LET op == p.op
        uid == IF op = PS THEN p.args.user_id ELSE p.loc["user_id"]
    IN CASE p.pc = "log_direct" -> p.args
       [] p.pc = "log_user_created" ->
            LogArgs(uid, "USER_CREATED", Some(op),
                    Some(Dict1(PyStr("user_identifier"),
                               PyStr(p.args.user_identifier))),
                    Some(Dict1(PyStr("user_id"), PyUserId(uid))),
                    "SUCCESS", None)
       [] p.pc = "log_assessment" ->
            LogArgs(uid, "ASSESSMENT_PROMPT_GENERATED", Some(op), None,
                    Some(Dict1(PyStr("assessment_path"),
                               PyPath(p.loc["assessment_path"]))),
                    "SUCCESS", None)
       [] p.pc = "log_context_aggregated" /\ op = WC ->
            LogArgs(uid, "CONTEXT_AGGREGATED", Some(op), None,
                    Some(Dict1(PyStr("context_length"),
                               PyInt(Len(p.loc["context_string"])))),
                    "SUCCESS", None)
       [] p.pc = "log_context_aggregated" /\ op = FO ->
            LogArgs(uid, "CONTEXT_AGGREGATED", Some(op), None,
                    Some(Dict2(PyStr("context_length"),
                               PyInt(Len(p.loc["context_string"])),
                               PyStr("files_count"),
                               PyInt(Cardinality(DOMAIN p.args.context_files)))),
                    "SUCCESS", None)
       [] p.pc = "log_context_failed" ->
            LogArgs(uid, "CONTEXT_AGGREGATION_FAILED", Some(op), None, None,
                    "FAILED", Some(p.loc["exc"].msg))
       [] p.pc = "log_designer_prepared" /\ op = WC ->
            LogArgs(uid, "DESIGNER_INPUT_PREPARED", Some(op), None,
                    Some(Dict2(PyStr("designer_input_length"),
                               PyInt(Len(p.loc["designer_input"])),
                               PyStr("context_included"),
                               PyBool(Len(p.loc["context_string"]) > 0))),
                    PreparedStatus(op),
                    Some("Ready for external LLM processing"))
       [] p.pc = "log_designer_prepared" /\ op = FO ->
            LogArgs(uid, "DESIGNER_INPUT_PREPARED", Some(op), None,
                    Some(Dict1(PyStr("designer_input_length"),
                               PyInt(Len(p.loc["designer_input"])))),
                    PreparedStatus(op), None)
       [] p.pc = "log_seed_generated" /\ op = PS ->
            LogArgs(uid, "SEED_PROMPT_GENERATED", Some(op),
                    Some(Dict1(PyStr("designer_response_length"),
                               PyInt(p.args.response.len))),
                    Some(Dict1(PyStr("seed_path"),
                               PyPath(p.loc["seed_path"]))),
                    "SUCCESS", None)
       [] p.pc = "log_seed_generated" /\ op = FO ->
            LogArgs(uid, "SEED_PROMPT_GENERATED", Some(op), None,
                    Some(Dict1(PyStr("seed_path"),
                               PyPath(p.loc["seed_path"]))),
                    "SUCCESS", None)
       [] p.pc = "log_seed_failed" ->
            LogArgs(uid, "SEED_GENERATION_FAILED", Some(op),
                    Some(Dict1(PyStr("designer_response_length"),
                               PyInt(p.args.response.len))),
                    None, "FAILED", Some("Error: " \o p.loc["exc"].msg))

LogLabels ==
    {"log_direct", "log_user_created", "log_assessment",
     "log_context_aggregated", "log_context_failed", "log_designer_prepared",
     "log_seed_generated", "log_seed_failed"}

\* (the except block swallows the error and the pipeline returns None)
Reraise_Swallow(p) == [p EXCEPT !.pc = "done", !.result = Returned(None)]

\* The bare `raise` that ends an except block: the error caught leaves the
\* pipeline
Reraise(p) == [p EXCEPT !.pc = "done", !.result = Raised(p.loc["exc"])]

\* Where a caller goes when its log_operation call has returned
AfterLog(p) ==
    CASE p.pc = "log_direct" ->
            [p EXCEPT !.pc = "done", !.result = Returned(None)]
      [] p.pc = "log_user_created" ->
            [p EXCEPT !.pc = IF p.op = WC THEN "get_context"
                             ELSE "generate_assessment"]
      [] p.pc = "log_assessment" ->
            IF p.op = NC
            THEN [p EXCEPT !.pc = "done",
                           !.result = Returned(PyUserId(p.loc["user_id"]))]
            ELSE [p EXCEPT !.pc = "write_context_files"]
      [] p.pc = "log_context_aggregated" ->
            [p EXCEPT !.pc = "prepare_designer_input"]
      [] p.pc = "log_designer_prepared" ->
            IF p.op = WC
            THEN [p EXCEPT !.pc = "done",
                           !.result = Returned(PyUserId(p.loc["user_id"]))]
            ELSE [p EXCEPT !.pc = "process_output"]
      [] p.pc = "log_seed_generated" ->
            IF p.op = PS
            THEN [p EXCEPT !.pc = "done",
                           !.result = Returned(PyPath(p.loc["seed_path"]))]
            ELSE [p EXCEPT !.pc = "done",
                           !.result = Returned(
                               [user_id |-> p.loc["user_id"],
                                assessment_path |-> p.loc["assessment_path"],
                                seed_path |-> p.loc["seed_path"]])]
      [] p.pc \in {"log_context_failed", "log_seed_failed"} -> Reraise(p)

\* (the full onboarding has the try block of the with-context pipeline)
OnRaise_FullOnboardingLogsFailure(p, e) ==
    IF p.op \in {WC, FO} /\ p.pc \in {"get_context", "log_context_aggregated"}
    THEN [p EXCEPT !.pc = "log_context_failed", !.loc = Set(@, "exc", e)]
    ELSE IF p.op = PS /\ p.pc \in {"process_output", "log_seed_generated"}
    THEN [p EXCEPT !.pc = "log_seed_failed", !.loc = Set(@, "exc", e)]
    ELSE [p EXCEPT !.pc = "done", !.result = Raised(e)]

\* (the failing call is made a second time before the error is let through)
OnRaise_RetryOnce(p, e) ==
    IF "retried" \notin DOMAIN p.loc
    THEN [p EXCEPT !.loc = Set(@, "retried", e)]
    ELSE IF p.op = WC /\ p.pc \in {"get_context", "log_context_aggregated"}
    THEN [p EXCEPT !.pc = "log_context_failed", !.loc = Set(@, "exc", e)]
    ELSE IF p.op = PS /\ p.pc \in {"process_output", "log_seed_generated"}
    THEN [p EXCEPT !.pc = "log_seed_failed", !.loc = Set(@, "exc", e)]
    ELSE [p EXCEPT !.pc = "done", !.result = Raised(e)]

\* Where a caller goes when the call it makes at p.pc raises e: into the
\* except block that encloses the call, or out of the operation
OnRaise(p, e) ==
    IF p.op = WC /\ p.pc \in {"get_context", "log_context_aggregated"}
    THEN [p EXCEPT !.pc = "log_context_failed", !.loc = Set(@, "exc", e)]
    ELSE IF p.op = PS /\ p.pc \in {"process_output", "log_seed_generated"}
    THEN [p EXCEPT !.pc = "log_seed_failed", !.loc = Set(@, "exc", e)]
    ELSE [p EXCEPT !.pc = "done", !.result = Raised(e)]

\* (log_operation catches the sqlite3 error and returns)
OnRefused_Swallowed(p) == AfterLog([p EXCEPT !.refused = TRUE])

\* log_operation has no except block: the sqlite3 error of connect, execute
\* or commit leaves it and reaches the caller of log_operation
OnRefused(p) == OnRaise([p EXCEPT !.refused = TRUE], OperationalError)

----------------------------------------------------------------------------
(* Actions *)

Init ==
    /\ clock = StartClock
    /\ schema = SchemaObjects  \* SynaiFactory.__init__ has run setup_database
    /\ log = <<>>
    /\ dirs = {}
    /\ context = <<>>
    /\ files = <<>>
    /\ proc = [c \in Callers |-> Idle]
    /\ calls = 0
    /\ created = <<>>
    /\ answer = None

\* The clock values a read can see: time does not run backwards, and may
\* not have advanced since the last read
MaxClock == StartClock + MaxAdvances * ClockStep
ReadsAfter(t0) == {t \in {t0, t0 + ClockStep} : t <= MaxClock}
Reads == ReadsAfter(clock)

CanInvoke(c) == proc[c].pc \in {"idle", "done"} /\ calls < MaxCalls

KnownUsers == dirs \cup {Stranger}

\* A caller invokes one of the four pipelines
InvokePipeline(c) ==
    /\ CanInvoke(c)
    /\ \/ \E op \in {NC, WC}, i \in UserIdentifiers :
             proc' = [proc EXCEPT ![c] =
                 Invoke(op, [user_identifier |-> i], "create_user")]
       \/ \E u \in KnownUsers, r \in Responses :
             proc' = [proc EXCEPT ![c] =
                 Invoke(PS, [user_id |-> u, response |-> r], "process_output")]
       \/ \E i \in UserIdentifiers, f \in ContextFileArgs, r \in FullOnboardingResponses :
             proc' = [proc EXCEPT ![c] =
                 Invoke(FO, [user_identifier |-> i, context_files |-> f,
                             response |-> r], "create_user")]
    /\ calls' = calls + 1
    /\ answer' = None
    /\ UNCHANGED <<schema, clock, log, dirs, context, files, created>>

\* A caller invokes log_operation itself (SynaiFactory.log_operation)
InvokeLogOperation(c) ==
    /\ CanInvoke(c)
    /\ \E u \in KnownUsers, pp \in PayloadPairs :
          proc' = [proc EXCEPT ![c] =
              Invoke(LOG, LogArgs(u, "CUSTOM", None, pp[1], pp[2],
                                  "SUCCESS", None), "log_direct")]
    /\ calls' = calls + 1
    /\ answer' = None
    /\ UNCHANGED <<schema, clock, log, dirs, context, files, created>>

\* get_operations_for_user(user_id), called between two invocations
Query(c) ==
    /\ proc[c].pc \in {"idle", "done"}
    /\ \E u \in KnownUsers : \E rows \in GetOperationsForUser(log, u) :
          answer' = Some([user_id |-> u, rows |-> rows])
    /\ UNCHANGED <<schema, clock, log, dirs, context, files, proc, calls, created>>

\* setup_database(db_path), called between two invocations, by itself or by
\* the construction of another SynaiFactory on the same db_path
Setup(c) ==
    /\ proc[c].pc \in {"idle", "done"}
    /\ LET r == SetupDatabase(schema, log) IN
          /\ schema' = r.objects
          /\ log' = r.rows
          /\ proc' = [proc EXCEPT ![c] =
                [Invoke(SETUP, <<>>, "done") EXCEPT
                    !.result = IF r.res.ok THEN Returned(r.res.val)
                               ELSE Raised(r.res.exc)]]
    /\ answer' = None
    /\ UNCHANGED <<clock, dirs, context, files, calls, created>>

\* create_user
CreateUser(c) ==
    /\ proc[c].pc = "create_user"
    /\ \E t \in Reads :
          LET user_id == NewUserId(proc[c].args.user_identifier, t) IN
          /\ clock' = t
          /\ \/ /\ dirs' = dirs \cup {user_id}
                /\ context' = MakeUserDirs(context, user_id)
                /\ created' = Append(created, user_id)
                /\ proc' = [proc EXCEPT ![c].pc = "log_user_created",
                                        ![c].loc = Set(@, "user_id", user_id)]
             \/ /\ UNCHANGED <<dirs, context, created>>
                /\ proc' = [proc EXCEPT ![c] = OnRaise(proc[c], CannotMakeDirs)]
    /\ answer' = None
    /\ UNCHANGED <<schema, log, files, calls>>

\* log_operation: the store takes the row, or refuses the write and the
\* sqlite3 error leaves log_operation
Log(c) ==
    /\ proc[c].pc \in LogLabels
    /\ \E t1 \in Reads : \E t2 \in ReadsAfter(t1) :
          /\ clock' = t2
          /\ \/ /\ log' = LogOperation(log, t1, t2, StepLogArgs(proc[c]))
                /\ proc' = [proc EXCEPT ![c] =
                      AfterLog([proc[c] EXCEPT
                                  !.appended = Append(@, Len(log) + 1)])]
             \/ /\ log' = log
                /\ proc' = [proc EXCEPT ![c] = OnRefused(proc[c])]
    /\ answer' = None
    /\ UNCHANGED <<schema, dirs, context, files, calls, created>>

\* generate_user_assessment_prompt
GenerateAssessment(c) ==
    /\ proc[c].pc = "generate_assessment"
    /\ \/ \E t \in Reads :
             LET r == GenerateUserAssessmentPrompt(dirs, files,
                                                   proc[c].loc["user_id"], t) IN
             /\ clock' = t
             /\ files' = r.fs
             /\ proc' = [proc EXCEPT ![c] =
                   LET p == [proc[c] EXCEPT
                                !.written = @ \cup Changed(files, r.fs)]
                   IN IF r.res.ok
                      THEN [p EXCEPT !.pc = "log_assessment",
                               !.loc = Set(@, "assessment_path", r.res.val)]
                      ELSE OnRaise(p, r.res.exc)]
       \/ \* line 49: load_base_prompt('synai_assessment.xml') raises
          /\ UNCHANGED <<clock, files>>
          /\ proc' = [proc EXCEPT ![c] = OnRaise(proc[c], TemplateNotFound)]
    /\ answer' = None
    /\ UNCHANGED <<schema, log, dirs, context, calls, created>>

\* (the loop over context_files does not run)
WriteAll_None(entries, given) == entries

\* pipeline_full_user_onboarding_with_context lines 247-249: every supplied
\* file is written into the context directory
WriteAll(entries, given) ==
    [f \in DOMAIN entries \cup DOMAIN given |->
        IF f \in DOMAIN given THEN FileText(given[f]) ELSE entries[f]]

\* pipeline_full_user_onboarding_with_context lines 243-249
WriteContextFiles(c) ==
    /\ proc[c].pc = "write_context_files"
    /\ LET user_id == proc[c].loc["user_id"]
           given == proc[c].args.context_files
           paths == GetUserPaths(dirs, user_id)
       IN IF paths.ok
          THEN /\ context' = [context EXCEPT ![user_id] = WriteAll(@, given)]
               /\ proc' = [proc EXCEPT ![c].pc = "get_context"]
          ELSE /\ context' = context
               /\ proc' = [proc EXCEPT ![c] = OnRaise(proc[c], paths.exc)]
    /\ answer' = None
    /\ UNCHANGED <<schema, clock, log, dirs, files, calls, created>>

\* get_user_context_string
GetContext(c) ==
    /\ proc[c].pc = "get_context"
    /\ \E listing \in ListDir(context[proc[c].loc["user_id"]]) :
          LET r == GetUserContextString(dirs, context, proc[c].loc["user_id"],
                                        listing)
          IN proc' = [proc EXCEPT ![c] =
                IF r.ok
                THEN [proc[c] EXCEPT !.pc = "log_context_aggregated",
                          !.loc = Set(@, "context_string", r.val)]
                ELSE OnRaise(proc[c], r.exc)]
    /\ answer' = None
    /\ UNCHANGED <<schema, clock, log, dirs, context, files, calls, created>>

\* prepare_designer_llm_input
PrepareDesignerInput(c) ==
    /\ proc[c].pc = "prepare_designer_input"
    /\ \/ proc' = [proc EXCEPT ![c].pc = "log_designer_prepared",
                     ![c].loc = Set(@, "designer_input",
                         PrepareDesignerLlmInput(proc[c].loc["context_string"]))]
       \/ \* line 32: load_base_prompt('synai_designer.xml') raises
          proc' = [proc EXCEPT ![c] = OnRaise(proc[c], TemplateNotFound)]
    /\ answer' = None
    /\ UNCHANGED <<schema, clock, log, dirs, context, files, calls, created>>

\* process_designer_llm_output
ProcessOutput(c) ==
    /\ proc[c].pc = "process_output"
    /\ \E t1 \in Reads : \E t2 \in ReadsAfter(t1) :
          LET user_id == IF proc[c].op = PS THEN proc[c].args.user_id
                         ELSE proc[c].loc["user_id"]
              r == ProcessDesignerLlmOutput(dirs, files, proc[c].args.response,
                                            user_id, t1, t2)
              p == [proc[c] EXCEPT !.written = @ \cup Changed(files, r.fs)]
          IN /\ clock' = t2
             /\ files' = r.fs
             /\ proc' = [proc EXCEPT ![c] =
                   IF r.res.ok
                   THEN [p EXCEPT !.pc = "log_seed_generated",
                             !.loc = Set(@, "seed_path", r.res.val)]
                   ELSE OnRaise(p, r.res.exc)]
    /\ answer' = None
    /\ UNCHANGED <<schema, log, dirs, context, calls, created>>

\* A user puts a file into a context directory by hand
DropContextFile ==
    /\ \E u \in dirs, d \in DroppedFiles :
          /\ d[1] \notin DOMAIN context[u]
          /\ context' = [context EXCEPT ![u] = (d[1] :> d[2]) @@ @]
    /\ answer' = None
    /\ UNCHANGED <<schema, clock, log, dirs, files, proc, calls, created>>

Next ==
    \/ \E c \in Callers :
          \/ InvokePipeline(c)
          \/ InvokeLogOperation(c)
          \/ Query(c)
          \/ Setup(c)
          \/ CreateUser(c)
          \/ Log(c)
          \/ GenerateAssessment(c)
          \/ WriteContextFiles(c)
          \/ GetContext(c)
          \/ PrepareDesignerInput(c)
          \/ ProcessOutput(c)
    \/ DropContextFile

Spec == Init /\ [][Next]_vars

----------------------------------------------------------------------------
(* The file functions by themselves: get_user_context_string and           *)
(* save_user_prompt applied to the directories of one user, whose context  *)
(* files are written in any order                                          *)

TestUser == NewUserId("ann", StartClock)

A_PDF == <<"a", ".", "p", "d", "f">>
FileNames == {A_TXT, B_MD, A_PDF}
Contents ==
    {FileText(<<"alpha">>), FileText(<<"beta", "\r\n", "gamma">>), Undecodable}

\* subfolder arguments of save_user_prompt
SubfolderArgs == USER_SUBDIRS \cup {"base", "other", ""}
PromptFile == [kind |-> "custom", hash |-> GenerateHash(<<"x">>, SHORT_HASH_LEN), secs |-> 0]

\* create_user has made the directories of TestUser
InitFiles ==
    /\ clock = StartClock
    /\ schema = SchemaObjects
    /\ log = <<>>
    /\ dirs = {TestUser}
    /\ context = MakeUserDirs(<<>>, TestUser)
    /\ files = <<>>
    /\ proc = [c \in Callers |-> Idle]
    /\ calls = 0
    /\ created = <<TestUser>>
    /\ answer = None

\* write_file(os.path.join(user_paths['context'], filename), content), or a
\* file put there by other means
PutContextFile ==
    /\ \E f \in FileNames, content \in Contents :
          context' = [context EXCEPT ![TestUser] =
                         [n \in DOMAIN @ \cup {f} |-> IF n = f THEN content ELSE @[n]]]
    /\ answer' = None
    /\ UNCHANGED <<schema, clock, log, dirs, files, proc, calls, created>>

\* get_user_context_string(user_id)
ReadContext ==
    /\ \E listing \in ListDir(context[TestUser]) :
          answer' = Some([call |-> "get_user_context_string",
                          listing |-> listing,
                          res |-> GetUserContextString(dirs, context, TestUser,
                                                       listing)])
    /\ UNCHANGED <<schema, clock, log, dirs, context, files, proc, calls, created>>

\* save_user_prompt(user_id, prompt_filename, prompt_content, subfolder)
SavePrompt ==
    /\ \E subfolder \in SubfolderArgs :
          LET r == SaveUserPrompt(dirs, files, TestUser, PromptFile,
                                  AssessmentContent(TestUser), subfolder)
          IN /\ files' = r.fs
             /\ answer' = Some([call |-> "save_user_prompt",
                                subfolder |-> subfolder,
                                before |-> files,
                                res |-> r.res])
    /\ UNCHANGED <<schema, clock, log, dirs, context, proc, calls, created>>

NextFiles == PutContextFile \/ ReadContext \/ SavePrompt

SpecFiles == InitFiles /\ [][NextFiles]_vars

----------------------------------------------------------------------------
(* The two filters of context file names: the one get_user_context_string  *)
(* applies to the listing of the context directory and                     *)
(* config.is_valid_context_file, applied to a directory that holds one     *)
(* file of any name                                                        *)

MaxNameLen == 4
NameAlphabet == {".", "t", "x", "T", "X", "m", "d", "M", "D"}
Names == UNION {[1..n -> NameAlphabet] : n \in 1..MaxNameLen}

\* str.lower()
LowerChar(ch) ==
    CASE ch = "T" -> "t" [] ch = "X" -> "x" [] ch = "M" -> "m"
      [] ch = "D" -> "d" [] OTHER -> ch
Lower(f) == [i \in 1..Len(f) |-> LowerChar(f[i])]

\* config.py line 24
CONTEXT_FILE_EXTENSIONS == {TXT, MD}

\* config.is_valid_context_file
IsValidContextFile(filename) ==
    \E ext \in CONTEXT_FILE_EXTENSIONS : EndsWith(Lower(filename), ext)

\* a file is put into the empty context directory of TestUser
PutNamedFile ==
    /\ context[TestUser] = <<>>
    /\ \E f \in Names :
          context' = [context EXCEPT ![TestUser] = (f :> FileText(<<"alpha">>))]
    /\ answer' = None
    /\ UNCHANGED <<schema, clock, log, dirs, files, proc, calls, created>>

\* get_user_context_string(user_id), and is_valid_context_file for every
\* name in the directory
ApplyFilters ==
    /\ \E listing \in ListDir(context[TestUser]) :
          answer' = Some([call |-> "filters",
                          listing |-> listing,
                          res |-> GetUserContextString(dirs, context, TestUser,
                                                       listing),
                          valid |-> [f \in DOMAIN context[TestUser] |->
                                        IsValidContextFile(f)]])
    /\ UNCHANGED <<schema, clock, log, dirs, context, files, proc, calls, created>>

NextFilters == PutNamedFile \/ ApplyFilters

SpecFilters == InitFiles /\ [][NextFilters]_vars

----------------------------------------------------------------------------
(* prepare_designer_llm_input by itself, applied to templates and context  *)
(* strings                                                                 *)

\* designer templates, cut at the occurrences of the placeholder: the one of
\* the pipelines, and one that holds the placeholder twice
TemplateParts ==
    {DesignerTemplate,
     <<"<synai><mode>designer</mode><a>", "</a><b>", "</b></synai>">>}

\* context strings: the texts of at most MaxPieces pieces, some of which
\* make up the placeholder
MaxPieces == 3
Pieces == {"a", "\n", "{CON", "TEXT}"}

RECURSIVE Concat(_)
Concat(ps) == IF ps = <<>> THEN "" ELSE Head(ps) \o Concat(Tail(ps))

ContextStrings ==
    {Concat(ps) : ps \in UNION {[1..n -> Pieces] : n \in 0..MaxPieces}}

\* prepare_designer_llm_input(context_string), with the template file as
\* load_base_prompt finds it
PrepareInput ==
    /\ \E parts \in TemplateParts, context_string \in ContextStrings :
          answer' = Some([call |-> "prepare_designer_llm_input",
                          parts |-> parts,
                          context_string |-> context_string,
                          res |-> Substitute(JoinWith(parts, PLACEHOLDER),
                                             context_string)])
    /\ UNCHANGED <<schema, clock, log, dirs, context, files, proc, calls, created>>

NextPrepare == PrepareInput

SpecPrepare == InitFiles /\ [][NextPrepare]_vars


----------------------------------------------------------------------------
(* Two invocations at once: two callers (threads or processes) each run    *)
(* one pipeline against the same store and the same data directory.  The   *)
(* steps of the two interleave; inside log_operation the timestamp is      *)
(* taken first and the row is inserted and committed afterwards, under the *)
(* write lock of the store                                                 *)

ConcCallers == {"c1", "c2"}

\* the invocations the two callers make
ConcInvocations ==
    {Invoke(NC, [user_identifier |-> "ann"], "create_user"),
     Invoke(WC, [user_identifier |-> "ann"], "create_user"),
     Invoke(PS, [user_id |-> TestUser, response |-> PlainSeed], "process_output"),
     Invoke(PS, [user_id |-> TestUser, response |-> WrongRoot], "process_output"),
     Invoke(FO, [user_identifier |-> "ann", context_files |-> <<>>, response |-> PlainSeed], "create_user")}

\* TestUser exists, and both callers have made their call
InitConc ==
    /\ clock = StartClock
    /\ schema = SchemaObjects
    /\ log = <<>>
    /\ dirs = {TestUser}
    /\ context = MakeUserDirs(<<>>, TestUser)
    /\ files = <<>>
    /\ proc \in [ConcCallers -> ConcInvocations]
    /\ calls = 0
    /\ created = <<TestUser>>
    /\ answer = None

Without(loc, name) == [n \in DOMAIN loc \ {name} |-> loc[n]]

\* log_operation line 92: the timestamp is built from the two clock reads
Stamp(c) ==
    /\ proc[c].pc \in LogLabels
    /\ "stamp" \notin DOMAIN proc[c].loc
    /\ \E t1 \in Reads : \E t2 \in ReadsAfter(t1) :
          /\ clock' = t2
          /\ proc' = [proc EXCEPT ![c].loc = Set(@, "stamp", <<t1, t2>>)]
    /\ UNCHANGED <<schema, log, dirs, context, files, calls, created, answer>>

\* log_operation lines 95-104: INSERT and commit, one atomic append under
\* the write lock, or the sqlite3 error of a store that stayed locked
Insert(c) ==
    /\ proc[c].pc \in LogLabels
    /\ "stamp" \in DOMAIN proc[c].loc
    /\ LET stamp == proc[c].loc["stamp"]
           p == [proc[c] EXCEPT !.loc = Without(@, "stamp")]
       IN \/ /\ log' = LogOperation(log, stamp[1], stamp[2], StepLogArgs(p))
             /\ proc' = [proc EXCEPT ![c] =
                   AfterLog([p EXCEPT !.appended = Append(@, Len(log) + 1)])]
          \/ /\ log' = log
             /\ proc' = [proc EXCEPT ![c] = OnRefused(p)]
    /\ UNCHANGED <<schema, clock, dirs, context, files, calls, created, answer>>

NextConc ==
    \E c \in ConcCallers :
        \/ CreateUser(c)
        \/ Stamp(c)
        \/ Insert(c)
        \/ GenerateAssessment(c)
        \/ WriteContextFiles(c)
        \/ GetContext(c)
        \/ PrepareDesignerInput(c)
        \/ ProcessOutput(c)

SpecConc == InitConc /\ [][NextConc]_vars

----------------------------------------------------------------------------
(* Properties of the operations log *)

\* An invocation of op that has ended
Ended(c, op) == proc[c].pc = "done" /\ proc[c].op = op
ReturnedFrom(c, op) ==
    Ended(c, op) /\ proc[c].result.val.kind = "returned"
RaisedFrom(c, op) ==
    Ended(c, op) /\ proc[c].result.val.kind = "raised"

\* The rows an invocation has appended, in the order it appended them
RowsAppended(c) ==
    [k \in 1..Len(proc[c].appended) |-> log[proc[c].appended[k]]]

\* The rows of a user as dicts, the row inserted last first
NewestInsertedFirst(user_id) ==
    LET ids == SortedIds(RowsOf(log, user_id))
    IN [k \in 1..Len(ids) |-> RowToDict(log[ids[Len(ids) + 1 - k]])]

\* C1: get_operations_for_user(u) returns exactly the records of u, in the
\* reverse of their insertion order.
C1_NewestFirst ==
    answer.some =>
        answer.val.rows = NewestInsertedFirst(answer.val.user_id)

\* C2: a mapping passed as input_params or output_ref to log_operation, empty
\* or not, is read back as an equal mapping in the same field of the record,
\* and a field that was not supplied is read back as None.
C2_RoundTrip ==
    \A c \in Callers :
        (answer.some /\ ReturnedFrom(c, LOG)) =>
            \A k \in 1..Len(answer.val.rows) :
                answer.val.rows[k].id = proc[c].appended[1] =>
                    /\ answer.val.rows[k].input_params = proc[c].args.input_params
                    /\ answer.val.rows[k].output_ref = proc[c].args.output_ref

\* C10: get_operations_for_user for a user_id without records in the log
\* returns the empty list.
C10_NoRecordsEmptyList ==
    (answer.some /\ \A i \in 1..Len(log) : log[i].user_id # answer.val.user_id)
        => answer.val.rows = <<>>

C10_Witness ==
    /\ answer.some
    /\ Len(log) > 0
    /\ \A i \in 1..Len(log) : log[i].user_id # answer.val.user_id
    /\ answer.val.rows = <<>>

----------------------------------------------------------------------------
(* Properties of the pipelines *)

\* A response that is not well-formed or whose root tag is not 'synai'
MalformedResponse(r) == ~r.wellformed \/ r.root.tag # "synai"

TypesAppended(c) ==
    [k \in 1..Len(proc[c].appended) |-> RowsAppended(c)[k].operation_type]
StatusesAppended(c) ==
    [k \in 1..Len(proc[c].appended) |-> RowsAppended(c)[k].status]

\* C3: pipeline_process_seed_from_designer_output given a malformed response
\* raises, writes no seed artifact, and, the store accepting the append,
\* has appended exactly one record, SEED_GENERATION_FAILED with status FAILED
\* and a non-empty note (no record other than that one in any case).
C3_MalformedSeedResponse ==
    \A c \in Callers :
        (proc[c].op = PS /\ MalformedResponse(proc[c].args.response)) =>
            /\ proc[c].written = {}
            /\ \A k \in 1..Len(proc[c].appended) :
                  /\ k = 1
                  /\ RowsAppended(c)[k].operation_type = "SEED_GENERATION_FAILED"
                  /\ RowsAppended(c)[k].status = "FAILED"
                  /\ RowsAppended(c)[k].user_id = proc[c].args.user_id
                  /\ RowsAppended(c)[k].notes.some
                  /\ Len(RowsAppended(c)[k].notes.val) > 0
            /\ proc[c].pc = "done" =>
                  /\ proc[c].result.val.kind = "raised"
                  /\ ~proc[c].refused => Len(proc[c].appended) = 1

C3_Witness ==
    \E c \in Callers :
        /\ RaisedFrom(c, PS)
        /\ proc[c].args.response = WrongRoot
        /\ proc[c].args.user_id \in dirs
        /\ Len(proc[c].appended) = 1

\* C4: pipeline_process_seed_from_designer_output given a well-formed
\* response with root 'synai' for an existing user, the store accepting the
\* append, returns a path and has appended exactly one record,
\* SEED_PROMPT_GENERATED with status SUCCESS, whose output_ref.seed_path is
\* the path returned; a file exists at that path, in the seeds directory of
\* the user.
C4_SeedSaved ==
    \A c \in Callers :
        (/\ Ended(c, PS)
         /\ ~MalformedResponse(proc[c].args.response)
         /\ proc[c].args.user_id \in dirs
         /\ ~proc[c].refused) =>
            /\ proc[c].result.val.kind = "returned"
            /\ Len(proc[c].appended) = 1
            /\ LET row == RowToDict(RowsAppended(c)[1])
                   path == proc[c].result.val.value
               IN /\ row.operation_type = "SEED_PROMPT_GENERATED"
                  /\ row.status = "SUCCESS"
                  /\ row.user_id = proc[c].args.user_id
                  /\ row.output_ref.some
                  /\ row.output_ref.val[PyStr("seed_path")] = path
                  /\ path.ref \in DOMAIN files
                  /\ path.ref.user = proc[c].args.user_id
                  /\ path.ref.sub = "seeds"

C4_Witness ==
    \E c \in Callers :
        /\ ReturnedFrom(c, PS)
        /\ proc[c].args.response = SeedWithMetadata
        /\ Len(proc[c].appended) = 1
        /\ proc[c].result.val.value.ref \in DOMAIN files

\* get_user_context_string has raised in the invocation of c
AggregationFailed(c) ==
    /\ "exc" \in DOMAIN proc[c].loc
    /\ "context_string" \notin DOMAIN proc[c].loc

\* C5: in pipeline_onboard_user_with_context_to_seed, when context
\* aggregation fails, the pipeline aborts: it never appends a
\* DESIGNER_INPUT_PREPARED record or a PENDING_LLM status, it ends by raising
\* the error of the aggregation and, the store accepting the appends, has
\* appended USER_CREATED and then one CONTEXT_AGGREGATION_FAILED record with
\* status FAILED.
C5_AggregationFailureAborts ==
    \A c \in Callers :
        (proc[c].op = WC /\ AggregationFailed(c)) =>
            /\ proc[c].pc \in {"log_context_failed", "done"}
            /\ \A k \in 1..Len(proc[c].appended) :
                  /\ RowsAppended(c)[k].operation_type # "DESIGNER_INPUT_PREPARED"
                  /\ RowsAppended(c)[k].status # "PENDING_LLM"
            /\ proc[c].pc = "done" =>
                  /\ proc[c].result.val.kind = "raised"
                  /\ ~proc[c].refused =>
                        /\ proc[c].result.val.exc = proc[c].loc["exc"]
                        /\ TypesAppended(c) =
                              <<"USER_CREATED", "CONTEXT_AGGREGATION_FAILED">>
                        /\ StatusesAppended(c) = <<"SUCCESS", "FAILED">>

C5_Witness ==
    \E c \in Callers :
        /\ RaisedFrom(c, WC)
        /\ AggregationFailed(c)
        /\ ~proc[c].refused
        /\ proc[c].result.val.exc.type = "UnicodeDecodeError"
        /\ Len(proc[c].appended) = 2

\* C6: a pipeline_onboard_user_with_context_to_seed run that returns has
\* returned the new user_id and has appended, in this order, exactly three
\* records, all of that user: USER_CREATED (SUCCESS), CONTEXT_AGGREGATED
\* (SUCCESS), DESIGNER_INPUT_PREPARED (PENDING_LLM).
C6_WithContextRecords ==
    \A c \in Callers :
        ReturnedFrom(c, WC) =>
            /\ proc[c].result.val.value = PyUserId(proc[c].loc["user_id"])
            /\ TypesAppended(c) =
                  <<"USER_CREATED", "CONTEXT_AGGREGATED", "DESIGNER_INPUT_PREPARED">>
            /\ StatusesAppended(c) = <<"SUCCESS", "SUCCESS", "PENDING_LLM">>
            /\ \A k \in 1..3 :
                  /\ RowsAppended(c)[k].user_id = proc[c].loc["user_id"]
                  /\ RowsAppended(c)[k].id = proc[c].appended[k]
            /\ proc[c].appended[1] < proc[c].appended[2]
            /\ proc[c].appended[2] < proc[c].appended[3]

C6_Witness ==
    \E c \in Callers :
        /\ ReturnedFrom(c, WC)
        /\ Len(proc[c].appended) = 3
        /\ log[proc[c].appended[3]].status = "PENDING_LLM"

\* The position of the row with the given id in a query result, 0 if absent
PositionOf(rows, id) ==
    IF \E k \in 1..Len(rows) : rows[k].id = id
    THEN CHOOSE k \in 1..Len(rows) : rows[k].id = id
    ELSE 0

\* C7 (append part): a pipeline_new_user_onboarding_to_assessment run that
\* returns has appended exactly two records, USER_CREATED and then
\* ASSESSMENT_PROMPT_GENERATED, both SUCCESS, both of the new user and with
\* this pipeline's name.
C7_TwoRecordsAppended ==
    \A c \in Callers :
        ReturnedFrom(c, NC) =>
            /\ TypesAppended(c) = <<"USER_CREATED", "ASSESSMENT_PROMPT_GENERATED">>
            /\ StatusesAppended(c) = <<"SUCCESS", "SUCCESS">>
            /\ \A k \in 1..2 :
                  /\ RowsAppended(c)[k].user_id = proc[c].loc["user_id"]
                  /\ RowsAppended(c)[k].pipeline_name = Some(NC)

\* C7: after a pipeline_new_user_onboarding_to_assessment run that returned,
\* get_operations_for_user of the new user lists ASSESSMENT_PROMPT_GENERATED
\* before USER_CREATED.
C7_AssessmentListedFirst ==
    \A c \in Callers :
        (/\ ReturnedFrom(c, NC)
         /\ answer.some
         /\ answer.val.user_id = proc[c].loc["user_id"]) =>
            /\ PositionOf(answer.val.rows, proc[c].appended[2]) > 0
            /\ PositionOf(answer.val.rows, proc[c].appended[2])
                  < PositionOf(answer.val.rows, proc[c].appended[1])

\* the files handed to the full pipeline, as they must be found on disk
FilesGiven(c) ==
    [n \in DOMAIN proc[c].args.context_files |->
        FileText(proc[c].args.context_files[n])]

\* C8: a pipeline_full_user_onboarding_with_context run that returns has
\* appended, in this order, USER_CREATED, ASSESSMENT_PROMPT_GENERATED,
\* CONTEXT_AGGREGATED, DESIGNER_INPUT_PREPARED, SEED_PROMPT_GENERATED, all
\* with the new user's id and this pipeline's name; and whenever the
\* pipeline is about to aggregate the context, every context file it was
\* given is already in the user's context directory.
C8_FullOnboardingOrder ==
    \A c \in Callers :
        /\ ReturnedFrom(c, FO) =>
              /\ TypesAppended(c) =
                    <<"USER_CREATED", "ASSESSMENT_PROMPT_GENERATED",
                      "CONTEXT_AGGREGATED", "DESIGNER_INPUT_PREPARED",
                      "SEED_PROMPT_GENERATED">>
              /\ \A k \in 1..5 :
                    /\ RowsAppended(c)[k].user_id = proc[c].loc["user_id"]
                    /\ RowsAppended(c)[k].pipeline_name = Some(FO)
                    /\ k > 1 => proc[c].appended[k - 1] < proc[c].appended[k]
        /\ (proc[c].op = FO /\ proc[c].pc = "get_context") =>
              \A n \in DOMAIN FilesGiven(c) :
                  /\ n \in DOMAIN context[proc[c].loc["user_id"]]
                  /\ context[proc[c].loc["user_id"]][n] = FilesGiven(c)[n]

C8_Witness ==
    \E c \in Callers :
        /\ ReturnedFrom(c, FO)
        /\ DOMAIN proc[c].args.context_files # {}
        /\ Len(proc[c].appended) = 5
        /\ DOMAIN FilesGiven(c) \subseteq DOMAIN context[proc[c].loc["user_id"]]

\* C9 (length part): every id create_user returned has 16 characters
C9_IdLength == \A i \in 1..Len(created) : created[i].len = 16

\* C9: the ids create_user returns have 16 characters and no two calls
\* return the same id, the identifier being the same or not.
C9_UniqueUserIds ==
    /\ \A i \in 1..Len(created) : created[i].len = 16
    /\ \A i, j \in 1..Len(created) : i # j => created[i] # created[j]

----------------------------------------------------------------------------
(* Properties of the store *)

\* C11: setup_database, called on a location whose schema exists, with or
\* without records, returns normally and leaves the schema and every
\* record as they were.
C11_SetupIdempotent ==
    [][\A c \in Callers :
          Setup(c) => /\ log' = log
                      /\ schema' = schema
                      /\ proc'[c].result.val.kind = "returned"]_vars

C11_Witness ==
    \E c \in Callers :
        /\ ReturnedFrom(c, SETUP)
        /\ schema = SchemaObjects
        /\ Len(log) > 1

\* C12: the log is append-only and its records immutable: every step of
\* every operation leaves each record appended earlier in the log, under
\* the same id, with the same timestamp and the same field values.
C12_AppendOnly ==
    [][/\ Len(log') >= Len(log)
       /\ \A i \in 1..Len(log) : log'[i] = log[i] /\ log[i].id = i]_vars

\* a PENDING_LLM record followed by the seed record of the same user
C12_Witness ==
    \E i, j \in 1..Len(log) :
        /\ i < j
        /\ log[i].status = "PENDING_LLM"
        /\ log[j].user_id = log[i].user_id
        /\ log[j].operation_type = "SEED_PROMPT_GENERATED"

\* C13: log_operation never fails silently.  A log_operation step in which
\* the store did not take the row raises the sqlite3 error: a direct call
\* ends raising it, a pipeline is left with that error or enters the except
\* block around the call with it, and never goes on to its next step; an
\* invocation in which an append failed never returns normally.
C13_NoSilentFailure ==
    /\ [][\A c \in Callers :
             (Log(c) /\ log' = log) =>
                 /\ proc'[c].refused
                 /\ proc'[c].pc \in {"done", "log_context_failed", "log_seed_failed"}
                 /\ proc'[c].pc = "done" =>
                       proc'[c].result = Raised(OperationalError)
                 /\ proc'[c].pc # "done" =>
                       /\ proc'[c].loc["exc"] = OperationalError
                       /\ proc'[c].pc # proc[c].pc]_vars
    /\ [](\A c \in Callers :
             (proc[c].refused /\ proc[c].pc = "done") =>
                 proc[c].result.val.kind = "raised")

C13_Witness ==
    \E c \in Callers :
        /\ RaisedFrom(c, NC)
        /\ proc[c].refused
        /\ proc[c].result = Raised(OperationalError)
        /\ Len(proc[c].appended) = 1

----------------------------------------------------------------------------
(* Properties of the artifacts and of the context *)

\* the seed artifacts on disk
SeedPaths == {p \in DOMAIN files : p.name.kind = "seed_prompt"}

\* the text of the element find(tag) returns in e, None if there is none
FoundText(e, tag) ==
    IF Find(e, tag) = NoMatch THEN None ELSE Some(e.children[Find(e, tag)].text)

\* C14: every saved seed artifact has a metadata block in which the
\* user_id element that find('user_id') returns is the user_id the seed was
\* saved for, and the generated_by element found is 'synai_designer'.
C14_SeedMetadata ==
    \A p \in SeedPaths :
        /\ Find(files[p], "metadata") # NoMatch
        /\ LET metadata == files[p].children[Find(files[p], "metadata")]
           IN /\ FoundText(metadata, "user_id") = Some(PyUserId(p.user))
              /\ FoundText(metadata, "generated_by") = Some(PyStr("synai_designer"))

\* C14 (what holds): every saved seed artifact has a metadata block among
\* whose elements are a user_id element with the user_id the seed was saved
\* for and a generated_by element 'synai_designer'.
C14_MetadataAppended ==
    \A p \in SeedPaths :
        /\ Find(files[p], "metadata") # NoMatch
        /\ LET metadata == files[p].children[Find(files[p], "metadata")]
           IN /\ \E k \in 1..Len(metadata.children) :
                    metadata.children[k] = Element("user_id", PyUserId(p.user), <<>>)
              /\ \E k \in 1..Len(metadata.children) :
                    metadata.children[k] =
                        Element("generated_by", PyStr("synai_designer"), <<>>)

\* the answer of the last step is one of get_user_context_string
ContextAnswered == answer.some /\ answer.val.call = "get_user_context_string"

\* a recognized context file: its name ends with .txt or with .md
Recognized(f) ==
    \/ Len(f) >= 4 /\ SubSeq(f, Len(f) - 3, Len(f)) = <<".", "t", "x", "t">>
    \/ Len(f) >= 3 /\ SubSeq(f, Len(f) - 2, Len(f)) = <<".", "m", "d">>

\* the names of S in lexicographic order
InOrder(S) ==
    CHOOSE l \in [1..Cardinality(S) -> S] :
        \A i, j \in DOMAIN l : i < j => StrLess(l[i], l[j])

\* header with the file name, separator line, content, for each recognized
\* file of the directory in lexicographic order, a blank line between two
Aggregated(entries, Content(_)) ==
    LET names == InOrder({f \in DOMAIN entries : Recognized(f)})
    IN JoinBlocks([k \in 1..Len(names) |->
                      ContextBlock(names[k], Content(entries[names[k]]))])

AllDecodable(entries) ==
    \A f \in DOMAIN entries : Recognized(f) => entries[f].utf8

ExactContent(content) == Text(content.text)

\* C15: whatever the order in which the files were written and in which
\* the directory lists them, get_user_context_string returns the recognized
\* files in lexicographic order of their names, each as header, separator
\* line and the file's exact content, joined by a blank line; the empty
\* string when there is no recognized file.
C15_ExactContent ==
    (ContextAnswered /\ AllDecodable(context[TestUser])) =>
        answer.val.res = Ok(Aggregated(context[TestUser], ExactContent))

\* C15 (what holds): the same, with the content of each file as a text-mode
\* read returns it, every line end being "\n".
C15_OrderStable ==
    (ContextAnswered /\ AllDecodable(context[TestUser])) =>
        answer.val.res = Ok(Aggregated(context[TestUser], ReadFile))

\* two recognized files, listed in the reverse of their order
C15_Witness ==
    /\ ContextAnswered
    /\ answer.val.res.ok
    /\ \E i, j \in DOMAIN answer.val.listing :
          /\ i < j
          /\ Recognized(answer.val.listing[i])
          /\ Recognized(answer.val.listing[j])
          /\ StrLess(answer.val.listing[j], answer.val.listing[i])

\* the directory without the files that are not recognized
OnlyRecognized(entries) ==
    [f \in {g \in DOMAIN entries : Recognized(g)} |-> entries[f]]

\* C16: a file that is not recognized, in the context directory alongside
\* recognized files, contributes nothing: get_user_context_string answers
\* what it answers for the directory without that file, however either
\* directory is listed.
C16_IgnoresOtherExtensions ==
    ContextAnswered =>
        \A listing \in ListDir(OnlyRecognized(context[TestUser])) :
            answer.val.res =
                GetUserContextString(dirs,
                    [context EXCEPT ![TestUser] = OnlyRecognized(@)],
                    TestUser, listing)

C16_Witness ==
    /\ ContextAnswered
    /\ answer.val.res.ok
    /\ answer.val.res.val # ""
    /\ A_PDF \in DOMAIN context[TestUser]
    /\ context[TestUser][A_PDF].utf8
    /\ A_TXT \in DOMAIN context[TestUser]

\* C17: save_user_prompt writes into one of the five subdirectories of the
\* user or, given any other subfolder name, raises ValueError and writes no
\* file.
C17_OnlyFixedSubdirs ==
    (answer.some /\ answer.val.call = "save_user_prompt") =>
        IF answer.val.subfolder \in
              {"context", "prompts", "seeds", "feedback", "interaction_dumps"}
        THEN /\ answer.val.res.ok
             /\ answer.val.res.val.sub = answer.val.subfolder
             /\ answer.val.res.val \in DOMAIN files
        ELSE /\ ~answer.val.res.ok
             /\ answer.val.res.exc.type = "ValueError"
             /\ files = answer.val.before

\* C17 (what holds): as C17, the name 'base' counting as a sixth name that
\* save_user_prompt accepts
C17_RejectsUnknownSubfolder ==
    (answer.some /\ answer.val.call = "save_user_prompt"
                 /\ answer.val.subfolder # "base") =>
        IF answer.val.subfolder \in
              {"context", "prompts", "seeds", "feedback", "interaction_dumps"}
        THEN /\ answer.val.res.ok
             /\ answer.val.res.val.sub = answer.val.subfolder
             /\ answer.val.res.val \in DOMAIN files
        ELSE /\ ~answer.val.res.ok
             /\ answer.val.res.exc.type = "ValueError"
             /\ files = answer.val.before

----------------------------------------------------------------------------
(* Properties of failing pipelines *)

\* an except block of c's invocation has caught an error
Caught(c) == "exc" \in DOMAIN proc[c].loc

\* the invocation of c has written its FAILED record
FailedRecordWritten(c) ==
    /\ Len(proc[c].appended) > 0
    /\ log[proc[c].appended[Len(proc[c].appended)]].status = "FAILED"

\* C18: a pipeline in which a step failed ends by raising the error that
\* step raised, also when an except block caught the error to write a FAILED
\* record first.
C18_OriginalError ==
    \A c \in Callers :
        (proc[c].pc = "done" /\ Caught(c)) =>
            proc[c].result = Raised(proc[c].loc["exc"])

\* C18 (what holds): a pipeline in which a step failed ends by raising.  Where
\* an except block caught the error, the pipeline raises that error if the
\* FAILED record was written, and the error of the store if the store
\* refused the FAILED record.  Where no except block is around the failing
\* step, the pipeline raises the error of that step: the error of the store
\* if an append was refused, else the error of the aggregation or of the
\* validation of the response.
C18_OriginalErrorUnlessLogFails ==
    \A c \in Callers :
        /\ (proc[c].pc = "done" /\ Caught(c)) =>
              IF FailedRecordWritten(c)
              THEN proc[c].result = Raised(proc[c].loc["exc"])
              ELSE /\ proc[c].refused
                   /\ proc[c].result = Raised(OperationalError)
        /\ (proc[c].pc = "done" /\ ~Caught(c) /\ proc[c].op \in {NC, WC, PS, FO}) =>
              /\ proc[c].refused => proc[c].result = Raised(OperationalError)
              /\ (~proc[c].refused /\ proc[c].result.val.kind = "raised") =>
                    /\ proc[c].op = FO
                    /\ \/ /\ proc[c].result.val.exc.type = "ValueError"
                          /\ MalformedResponse(proc[c].args.response)
                       \/ /\ proc[c].result.val.exc.type = "UnicodeDecodeError"
                          /\ Len(proc[c].appended) = 2

\* the place of a step in the text of its pipeline
StepOrder ==
    <<"create_user", "log_user_created", "generate_assessment",
      "log_assessment", "write_context_files", "get_context",
      "log_context_aggregated", "log_context_failed",
      "prepare_designer_input", "log_designer_prepared", "process_output",
      "log_seed_generated", "log_seed_failed", "log_direct", "done">>
Rank(pc) == CHOOSE k \in 1..Len(StepOrder) : StepOrder[k] = pc

\* c takes a step of the invocation it is in
StepOf(c) == proc[c].pc \notin {"idle", "done"} /\ proc'[c] # proc[c]

\* the step c takes fails: its error leaves the pipeline or enters an
\* except block
FailingStepOf(c) ==
    /\ StepOf(c)
    /\ \/ proc'[c].pc = "done" /\ proc'[c].result.val.kind = "raised"
          /\ proc[c].pc \notin {"log_context_failed", "log_seed_failed"}
       \/ proc'[c].pc \in {"log_context_failed", "log_seed_failed"}
       \/ proc'[c].refused /\ ~proc[c].refused

\* C19: no rollback and no retry.  A failing step of a pipeline changes
\* nothing that exists: no directory, no file, no record; no step of any
\* operation removes a user directory, a context file, an artifact or a
\* record; every step of an invocation takes the invocation further in the
\* text of its pipeline, so no step is executed twice; and when an
\* invocation has failed, the directories of the user it created, the files
\* it wrote and the records it appended are there.
C19_NoRollbackNoRetry ==
    /\ [][/\ dirs \subseteq dirs'
          /\ \A u \in dirs : DOMAIN context[u] \subseteq DOMAIN context'[u]
          /\ DOMAIN files \subseteq DOMAIN files'
          /\ Len(log) <= Len(log')
          /\ \A c \in Callers :
                /\ StepOf(c) => Rank(proc[c].pc) < Rank(proc'[c].pc)
                /\ FailingStepOf(c) =>
                      /\ dirs' = dirs
                      /\ context' = context
                      /\ files' = files
                      /\ log' = log]_vars
    /\ [](\A c \in Callers :
             (proc[c].pc = "done" /\ proc[c].result.val.kind = "raised") =>
                 /\ "user_id" \in DOMAIN proc[c].loc =>
                       /\ proc[c].loc["user_id"] \in dirs
                       /\ proc[c].loc["user_id"] \in DOMAIN context
                 /\ proc[c].written \subseteq DOMAIN files
                 /\ \A k \in 1..Len(proc[c].appended) :
                       /\ proc[c].appended[k] <= Len(log)
                       /\ log[proc[c].appended[k]].id = proc[c].appended[k]
                 /\ (proc[c].op = FO /\ Len(proc[c].appended) >= 2) =>
                       \A n \in DOMAIN proc[c].args.context_files :
                           n \in DOMAIN context[proc[c].loc["user_id"]])

\* a full onboarding that failed at its last step
C19_Witness ==
    \E c \in Callers :
        /\ RaisedFrom(c, FO)
        /\ ~proc[c].refused
        /\ Len(proc[c].appended) = 4
        /\ proc[c].written # {}
        /\ proc[c].written \subseteq DOMAIN files
        /\ DOMAIN proc[c].args.context_files # {}
        /\ proc[c].loc["user_id"] \in dirs

\* the steps of each pipeline in the table of pipelines
TableSteps == (NC :> 2) @@ (WC :> 3) @@ (PS :> 1) @@ (FO :> 6)

\* the log_operation calls on the path of each pipeline that returns
LoggedSteps == (NC :> 2) @@ (WC :> 3) @@ (PS :> 1) @@ (FO :> 5)

C20_OneRecordPerLoggedStep ==
    \A c \in Callers : \A op \in {NC, WC, PS, FO} :
        (ReturnedFrom(c, op) /\ ~proc[c].refused) =>
            Len(proc[c].appended) = LoggedSteps[op]

\* C20 (what holds): no step produces two records
C20_AtMostOneRecordPerStep == [][Len(log') <= Len(log) + 1]_vars

----------------------------------------------------------------------------
(* Ties, the two-phase workflow and concurrent invocations *)

\* C21: when two records of the same user carry equal timestamps,
\* get_operations_for_user returns the one with the larger id first.
C21_TieLargerIdFirst ==
    answer.some =>
        \A j, k \in 1..Len(answer.val.rows) :
            (j < k /\ answer.val.rows[j].timestamp = answer.val.rows[k].timestamp)
                => answer.val.rows[j].id > answer.val.rows[k].id

\* C21 (what holds): the result is ordered by timestamp, newest first; the
\* order of records of equal timestamp is left to the engine.
C21_TimestampDescending ==
    answer.some =>
        \A j, k \in 1..Len(answer.val.rows) :
            j < k => ~TsLess(answer.val.rows[j].timestamp,
                             answer.val.rows[k].timestamp)

\* The PENDING_LLM rows of a user
PendingOf(user_id) ==
    {i \in RowsOf(log, user_id) : log[i].status = "PENDING_LLM"}

\* The second phase: a process-seed invocation that has ended, given a valid
\* response for a user whose log holds a PENDING_LLM row, the store
\* accepting the append
SecondPhase(c) ==
    /\ Ended(c, PS)
    /\ ~MalformedResponse(proc[c].args.response)
    /\ PendingOf(proc[c].args.user_id) # {}
    /\ ~proc[c].refused

\* C22: after pipeline_onboard_user_with_context_to_seed has returned for u
\* with a PENDING_LLM record, a later, separate
\* pipeline_process_seed_from_designer_output(u, valid response) returns and
\* appends a SEED_PROMPT_GENERATED SUCCESS record, which
\* get_operations_for_user(u) lists before the PENDING_LLM record.
C22_TwoPhaseWorkflow ==
    \A c \in Callers :
        SecondPhase(c) =>
            /\ proc[c].result.val.kind = "returned"
            /\ TypesAppended(c) = <<"SEED_PROMPT_GENERATED">>
            /\ StatusesAppended(c) = <<"SUCCESS">>
            /\ (answer.some /\ answer.val.user_id = proc[c].args.user_id) =>
                  \A i \in PendingOf(proc[c].args.user_id) :
                      /\ PositionOf(answer.val.rows, proc[c].appended[1]) > 0
                      /\ PositionOf(answer.val.rows, proc[c].appended[1])
                            < PositionOf(answer.val.rows, i)

\* C22 (what holds): the second phase returns and appends the
\* SEED_PROMPT_GENERATED SUCCESS record of u after (with a larger id than)
\* the PENDING_LLM record; and while the caller of the first phase has made
\* no other call, the record of u inserted last is the PENDING_LLM one.
C22_SecondPhaseAppends ==
    \A c \in Callers :
        /\ SecondPhase(c) =>
              /\ proc[c].result.val.kind = "returned"
              /\ TypesAppended(c) = <<"SEED_PROMPT_GENERATED">>
              /\ StatusesAppended(c) = <<"SUCCESS">>
              /\ RowsAppended(c)[1].user_id = proc[c].args.user_id
              /\ \A i \in PendingOf(proc[c].args.user_id) :
                    i < proc[c].appended[1]
        /\ ReturnedFrom(c, WC) =>
              LET u == proc[c].loc["user_id"]
              IN /\ PendingOf(u) # {}
                 /\ \A i \in RowsOf(log, u) : \E j \in PendingOf(u) : i <= j

AppendedIds(c) == {proc[c].appended[k] : k \in 1..Len(proc[c].appended)}

\* The operation_type and status of the records a pipeline appends when it
\* runs alone on these arguments, every step succeeding but the validation
\* of a malformed response
AloneRecords(p) ==
    CASE p.op = NC ->
            <<<<"USER_CREATED", "SUCCESS">>,
              <<"ASSESSMENT_PROMPT_GENERATED", "SUCCESS">>>>
      [] p.op = WC ->
            <<<<"USER_CREATED", "SUCCESS">>,
              <<"CONTEXT_AGGREGATED", "SUCCESS">>,
              <<"DESIGNER_INPUT_PREPARED", "PENDING_LLM">>>>
      [] p.op = PS /\ MalformedResponse(p.args.response) ->
            <<<<"SEED_GENERATION_FAILED", "FAILED">>>>
      [] p.op = PS /\ ~MalformedResponse(p.args.response) ->
            <<<<"SEED_PROMPT_GENERATED", "SUCCESS">>>>
      [] p.op = FO ->
            <<<<"USER_CREATED", "SUCCESS">>,
              <<"ASSESSMENT_PROMPT_GENERATED", "SUCCESS">>,
              <<"CONTEXT_AGGREGATED", "SUCCESS">>,
              <<"DESIGNER_INPUT_PREPARED", "SUCCESS">>,
              <<"SEED_PROMPT_GENERATED", "SUCCESS">>>>

\* the invocation of c ended on a directory that could not be made or a
\* template that was not found
EnvironmentFailed(c) ==
    /\ proc[c].pc = "done"
    /\ proc[c].result.val.kind = "raised"
    /\ proc[c].result.val.exc \in {CannotMakeDirs, TemplateNotFound}

\* every row of the log was appended by exactly one of the two invocations,
\* under the id the invocation was given
EachRowAppendedOnce ==
    /\ \A i \in 1..Len(log) :
          /\ log[i].id = i
          /\ \E c \in ConcCallers : i \in AppendedIds(c)
    /\ \A c1 \in ConcCallers : \A c2 \in ConcCallers \ {c1} :
          AppendedIds(c1) \cap AppendedIds(c2) = {}

\* the records of c are in the log in the order of its steps, with its
\* user_id and pipeline name, and are the ones it appends when run alone
OwnRecordsInStepOrder(c) ==
    /\ \A j, k \in 1..Len(proc[c].appended) :
          j < k => proc[c].appended[j] < proc[c].appended[k]
    /\ \A k \in 1..Len(proc[c].appended) :
          /\ proc[c].appended[k] \in 1..Len(log)
          /\ log[proc[c].appended[k]].pipeline_name = Some(proc[c].op)
          /\ log[proc[c].appended[k]].user_id =
                (IF proc[c].op = PS THEN proc[c].args.user_id
                 ELSE proc[c].loc["user_id"])
          /\ ~proc[c].refused =>
                /\ k <= Len(AloneRecords(proc[c]))
                /\ log[proc[c].appended[k]].operation_type =
                      AloneRecords(proc[c])[k][1]
                /\ log[proc[c].appended[k]].status =
                      AloneRecords(proc[c])[k][2]
    /\ (proc[c].pc = "done" /\ ~proc[c].refused /\ ~EnvironmentFailed(c)) =>
          Len(proc[c].appended) = Len(AloneRecords(proc[c]))

\* C23: two pipeline invocations run concurrently against the same store,
\* also for the same user_id, each append being atomic.  No record is
\* altered (a row, once inserted, stays as it is); none is lost or
\* duplicated (every row of the log was appended by exactly one of the two
\* invocations, under the id the invocation was given, with its user_id and
\* its pipeline name); the records of each invocation keep their step order
\* in id order and are, type and status, the ones it appends when run
\* alone: all of them once it has ended without an append refused.
C23_ConcurrentAppends ==
    /\ [][/\ Len(log') >= Len(log)
          /\ \A i \in 1..Len(log) : log'[i] = log[i]]_vars
    /\ [](EachRowAppendedOnce /\ \A c \in ConcCallers : OwnRecordsInStepOrder(c))

\* two invocations for the same user have both ended, and their records
\* alternate in the log
C23_Witness ==
    /\ \A c \in ConcCallers :
          proc[c].pc = "done" /\ ~proc[c].refused /\ ~EnvironmentFailed(c)
    /\ \A i, j \in 1..Len(log) : log[i].user_id = log[j].user_id
    /\ proc["c1"].op = WC /\ proc["c2"].op = FO
    /\ Len(log) = 8
    /\ proc["c1"].appended = <<2, 4, 6>>

----------------------------------------------------------------------------
(* Full-Onboarding and the other pipelines *)

\* rows i and j record the same step, i in Full-Onboarding and j in one of
\* the other three pipelines
SharedStep(i, j) ==
    /\ log[i].pipeline_name = Some(FO)
    /\ log[j].pipeline_name \in {Some(NC), Some(WC), Some(PS)}
    /\ log[i].operation_type = log[j].operation_type

\* C24: for every step Full-Onboarding shares with one of the other three
\* pipelines, the record it appends has the same operation_type and the
\* same status as the record that pipeline appends for the step.
C24_SameTypeAndStatus ==
    \A i, j \in 1..Len(log) : SharedStep(i, j) => log[i].status = log[j].status

\* C24 (what holds): the statuses agree for every shared step but the
\* preparation of the designer input, which Full-Onboarding records as
\* SUCCESS and Onboard-With-Context as PENDING_LLM.
C24_SameStatusButPrepared ==
    \A i, j \in 1..Len(log) :
        SharedStep(i, j) =>
            \/ log[i].status = log[j].status
            \/ /\ log[i].operation_type = "DESIGNER_INPUT_PREPARED"
               /\ log[i].status = "SUCCESS"
               /\ log[j].status = "PENDING_LLM"

----------------------------------------------------------------------------
(* Properties of prepare_designer_llm_input *)

\* sub occurs in the text s
Occurs(sub, s) ==
    \E i \in 1..(Len(s) - Len(sub) + 1) : SubSeq(s, i, i + Len(sub) - 1) = sub

Prepared == answer.some /\ answer.val.call = "prepare_designer_llm_input"

\* C25: for every context string, the result of prepare_designer_llm_input
\* is the template with each occurrence of {CONTEXT} replaced by the context
\* string, the context string occurs in it, and {CONTEXT} no longer occurs
\* in it.
C25_PlaceholderGone ==
    Prepared =>
        /\ answer.val.res = JoinWith(answer.val.parts, answer.val.context_string)
        /\ Occurs(answer.val.context_string, answer.val.res)
        /\ ~Occurs(PLACEHOLDER, answer.val.res)

\* C25 (amended): for every context string, the result is the template with
\* each occurrence of {CONTEXT} replaced by the context string, and the
\* context string occurs in it; {CONTEXT} no longer occurs in it when the
\* context string does not itself contain {CONTEXT}, and occurs in it as
\* often as the context string brings it otherwise.
C25_FullySubstituted ==
    Prepared =>
        /\ answer.val.res = JoinWith(answer.val.parts, answer.val.context_string)
        /\ Occurs(answer.val.context_string, answer.val.res)
        /\ Occurs(PLACEHOLDER, answer.val.res)
              <=> Occurs(PLACEHOLDER, answer.val.context_string)

C25_Witness ==
    /\ Prepared
    /\ Len(answer.val.parts) = 3
    /\ answer.val.context_string = "a\na"
    /\ answer.val.res = "<synai><mode>designer</mode><a>a\na</a><b>a\na</b></synai>"
    /\ ~Occurs(PLACEHOLDER, answer.val.res)

----------------------------------------------------------------------------
(* Artifacts and records *)

\* The rows that record a saved artifact, and the key of output_ref under
\* which each holds the path returned
ArtifactKey ==
    ("ASSESSMENT_PROMPT_GENERATED" :> PyStr("assessment_path"))
        @@ ("SEED_PROMPT_GENERATED" :> PyStr("seed_path"))
ArtifactRows == {i \in 1..Len(log) : log[i].operation_type \in DOMAIN ArtifactKey}
PathRecorded(i) ==
    RowToDict(log[i]).output_ref.val[ArtifactKey[log[i].operation_type]].ref

\* C26: two invocations of generate_user_assessment_prompt, or of
\* process_designer_llm_output, for the same user never return the same
\* path: the paths two records name are two paths.
C26_NeverSamePath ==
    \A i, j \in ArtifactRows : i # j => PathRecorded(i) # PathRecorded(j)

\* C26 (the consequence claimed): a file once saved is never overwritten.
C26_NeverOverwritten ==
    [][\A f \in DOMAIN files : f \in DOMAIN files' /\ files'[f] = files[f]]_vars

\* C26 (what holds): a path is returned twice only for the same user and
\* the same kind of artifact.
C26_SamePathSameUser ==
    \A i, j \in ArtifactRows :
        PathRecorded(i) = PathRecorded(j) =>
            /\ log[i].operation_type = log[j].operation_type
            /\ log[i].user_id = log[j].user_id

----------------------------------------------------------------------------
(* Failures outside the failure-logging branches *)

\* The calls of a pipeline that stand inside a try block with a
\* failure-logging except branch
InsideTry(p) ==
    \/ p.op = WC /\ p.pc \in {"get_context", "log_context_aggregated"}
    \/ p.op = PS /\ p.pc \in {"process_output", "log_seed_generated"}

FailureLogLabels == {"log_context_failed", "log_seed_failed"}

\* c is in an invocation, at a call outside every try block
OutsideTry(c) ==
    /\ proc[c].pc \notin {"idle", "done"} \cup FailureLogLabels
    /\ ~InsideTry(proc[c])

\* the operation_types of the records the steps before position pc of
\* pipeline op append
CompletedBefore(op, pc) ==
    CASE pc \in {"create_user", "log_user_created", "log_direct"} -> <<>>
      [] op = WC /\ pc \in {"prepare_designer_input", "log_designer_prepared"} ->
            <<"USER_CREATED", "CONTEXT_AGGREGATED">>
      [] op # WC /\ pc \in {"generate_assessment", "log_assessment"} ->
            <<"USER_CREATED">>
      [] op = FO /\ pc \in {"write_context_files", "get_context", "log_context_aggregated"} ->
            <<"USER_CREATED", "ASSESSMENT_PROMPT_GENERATED">>
      [] op = FO /\ pc \in {"prepare_designer_input", "log_designer_prepared"} ->
            <<"USER_CREATED", "ASSESSMENT_PROMPT_GENERATED", "CONTEXT_AGGREGATED">>
      [] op = FO /\ pc \in {"process_output", "log_seed_generated"} ->
            <<"USER_CREATED", "ASSESSMENT_PROMPT_GENERATED",
              "CONTEXT_AGGREGATED", "DESIGNER_INPUT_PREPARED">>

\* C27: a step that raises at a position with no failure-logging branch
\* (create user, generate assessment, prepare designer input in
\* Onboard-With-Context, every step of Full-Onboarding) appends no record:
\* the step neither enters a failure-logging branch nor changes the log, the
\* invocation ends with the exception, the records it has appended are
\* exactly those of the steps completed before, none of them FAILED, and an
\* invocation that has ended takes no further step; no FAILED record ever
\* bears the name of a pipeline without failure-logging branch.
C27_UnloggedFailure ==
    /\ [][\A c \in Callers :
            /\ OutsideTry(c) => proc'[c].pc \notin FailureLogLabels
            /\ (/\ OutsideTry(c)
                /\ proc'[c].pc = "done"
                /\ proc'[c].result.val.kind = "raised") =>
                  /\ log' = log
                  /\ proc'[c].appended = proc[c].appended
                  /\ TypesAppended(c) = CompletedBefore(proc[c].op, proc[c].pc)
                  /\ \A k \in 1..Len(proc[c].appended) :
                        RowsAppended(c)[k].status # "FAILED"
            /\ proc[c].pc = "done" =>
                  \/ proc'[c] = proc[c]
                  \/ proc'[c].appended = <<>> /\ Len(log') = Len(log)]_vars
    /\ [](\A i \in 1..Len(log) :
             log[i].status = "FAILED" =>
                 log[i].pipeline_name \in {Some(WC), Some(PS)})

\* Onboard-With-Context has failed at prepare designer input
C27_Witness ==
    \E c \in Callers :
        /\ RaisedFrom(c, WC)
        /\ proc[c].result.val.exc = TemplateNotFound
        /\ TypesAppended(c) = <<"USER_CREATED", "CONTEXT_AGGREGATED">>
        /\ "designer_input" \notin DOMAIN proc[c].loc

\* the invocation of c has appended a record of this operation_type
HasAppended(c, operation_type) ==
    \E k \in 1..Len(proc[c].appended) :
        RowsAppended(c)[k].operation_type = operation_type

\* process_designer_llm_output has saved a seed in the invocation of c;
\* get_user_context_string has returned in it
SeedSaved(c) == proc[c].op = PS /\ "seed_path" \in DOMAIN proc[c].loc
ContextReturned(c) == proc[c].op = WC /\ "context_string" \in DOMAIN proc[c].loc

\* C28: a FAILED record is appended only when the step it names has failed:
\* no SEED_GENERATION_FAILED record in an invocation where
\* process_designer_llm_output has saved a seed, no
\* CONTEXT_AGGREGATION_FAILED record in one where get_user_context_string
\* has returned, whatever happens when the success record is written.
C28_FailedOnlyWhenStepFailed ==
    \A c \in Callers :
        /\ SeedSaved(c) => ~HasAppended(c, "SEED_GENERATION_FAILED")
        /\ ContextReturned(c) => ~HasAppended(c, "CONTEXT_AGGREGATION_FAILED")

\* C28 (what holds): the same, for invocations in which the store accepted
\* the success record.
C28_FailedOnlyWhenStepOrLogFailed ==
    \A c \in Callers :
        ~proc[c].refused =>
            /\ SeedSaved(c) => ~HasAppended(c, "SEED_GENERATION_FAILED")
            /\ ContextReturned(c) => ~HasAppended(c, "CONTEXT_AGGREGATION_FAILED")

\* the effect row r records has happened in the state with these
\* directories and files
EffectDone(r, ds, ctx, fs) ==
    /\ r.operation_type = "USER_CREATED" =>
          /\ r.user_id \in ds
          /\ r.user_id \in DOMAIN ctx
          /\ GetUserPaths(ds, r.user_id).ok
    /\ r.operation_type \in DOMAIN ArtifactKey =>
          /\ RowToDict(r).output_ref.some
          /\ RowToDict(r).output_ref.val[ArtifactKey[r.operation_type]].ref
                \in DOMAIN fs

\* C29: a record with status SUCCESS or PENDING_LLM refers to an effect that
\* has already happened: in every reachable state, a USER_CREATED record of
\* u implies that the directory tree of u exists and an
\* ASSESSMENT_PROMPT_GENERATED or SEED_PROMPT_GENERATED record that the file
\* its output_ref names exists; and the effect was there before the step
\* that appended the record.
C29_RecordAfterEffect ==
    /\ [](\A i \in 1..Len(log) :
             log[i].status \in {"SUCCESS", "PENDING_LLM"} =>
                 EffectDone(log[i], dirs, context, files))
    /\ [][\A i \in 1..Len(log') :
             (i > Len(log) /\ log'[i].status \in {"SUCCESS", "PENDING_LLM"}) =>
                 EffectDone(log'[i], dirs, context, files)]_vars

\* a full onboarding has returned: user, assessment and seed are recorded
C29_Witness ==
    \E c \in Callers :
        /\ ReturnedFrom(c, FO)
        /\ HasAppended(c, "USER_CREATED")
        /\ HasAppended(c, "ASSESSMENT_PROMPT_GENERATED")
        /\ HasAppended(c, "SEED_PROMPT_GENERATED")
        /\ proc[c].loc["user_id"] \in dirs
        /\ proc[c].written \subseteq DOMAIN files
        /\ Cardinality(proc[c].written) = 2

----------------------------------------------------------------------------
(* The two context-file filters *)

Filtered == answer.some /\ answer.val.call = "filters"

\* get_user_context_string has included the file f in its result
Included(f, res) ==
    res.ok /\ Occurs("### Context from " \o Text(f) \o " ###", res.val)

\* C30: get_user_context_string includes a regular file of the context
\* directory exactly when config.is_valid_context_file accepts its
\* filename, whatever the letter case of its extension.
C30_FiltersAgree ==
    Filtered =>
        \A f \in DOMAIN answer.val.valid :
            Included(f, answer.val.res) <=> answer.val.valid[f]

\* C30 (what holds): every file get_user_context_string includes is
\* accepted by is_valid_context_file, and the two agree on the names whose
\* extension is in lower case.
C30_IncludedAreValid ==
    Filtered =>
        \A f \in DOMAIN answer.val.valid :
            /\ Included(f, answer.val.res) => answer.val.valid[f]
            /\ (\E ext \in CONTEXT_FILE_EXTENSIONS : EndsWith(f, ext)) =>
                  Included(f, answer.val.res)
            /\ (answer.val.valid[f] /\ ~Included(f, answer.val.res)) =>
                  \E ext \in CONTEXT_FILE_EXTENSIONS :
                      EndsWith(Lower(f), ext) /\ ~EndsWith(f, ext)

====
